---- MODULE Spec2Model ----
(***************************************************************************)
(* Stock-movement bot: the per-user conversation state machine of          *)
(* app/bot.py (EosBot) and the transactional ledger of app/database.py     *)
(* (DatabaseManager).                                                      *)
(*                                                                         *)
(* Numbers.  Python Decimals are exact; the store keeps NUMERIC(14,3)      *)
(* quantities and NUMERIC(14,2) prices.  Quantities are integers counting  *)
(* 0.0001 (one digit finer than the store keeps), prices are integers      *)
(* counting 0.001 (one digit finer than the store keeps), totals written   *)
(* in a note are integers counting 0.01.                                   *)
(***************************************************************************)
EXTENDS Integers, Sequences, FiniteSets, TLC

VARIABLES
    quantidade,      \* tb_produtos.quantidade, committed value per product id
    movimentacoes,   \* tb_movimentacoes, committed rows in id order
    sessions,        \* EosBot.sessions: dict user id -> UserSession
    call,            \* per user: the adjust_stock call its handler is awaiting
    applied,         \* history: per product, what the committed calls add up to
    produtos         \* tb_produtos: the ids that have a row

vars == <<quantidade, movimentacoes, sessions, call, applied, produtos>>

-----------------------------------------------------------------------------
(* Bounds of the model *)

MaxMov == 1          \* rows of tb_movimentacoes before a clear
MaxStock == 10000    \* largest quantity (1 unit) an entrada may reach

-----------------------------------------------------------------------------
(* The seeded catalogue and the values the gateway can deliver *)

Users == {"u1", "u2"}

\* the handler invocations that can be running at a time: one per user, and a
\* second one of user u1 for the updates handled while the first still runs
Tasks == Users \cup {"u1b"}

\* user_id = query.from_user.id: the user whose update the invocation handles
user_id(t) == IF t = "u1b" THEN "u1" ELSE t

\* product ids of the seeded table; 1 is a coffee, 2 a package
Products == {1, 2}

categoria(p) == IF p = 1 THEN "cafes" ELSE "embalagens"

\* 9 is an id no row has
ProductIds == Products \cup {9}

Actions == {"entrada", "saida", "x"}

Categories == {"cafes", "embalagens", "brindes", "outros"}

MenuActions == {"home", "estoque", "entrada", "saida", "historico", "iaeos"}

NavCommands == {"back_to_categories", "back_to_products", "back_to_quantity",
                "restart", "x"}

\* parsed Decimal values a quantity button or text can carry:
\* 0, 0.0004, 0.5, 1 (in 0.0001)
QuantityValues == {0, 4, 5000, 10000}

\* parsed Decimal values a price button or text can carry:
\* 0, 0.004, 0.01 (in 0.001)
PriceValues == {0, 4, 10}

\* what a button's value field or a text message holds: the word custom, a
\* token Decimal() rejects (InvalidOperation), or a token it parses to n
Custom == [kind |-> "custom", n |-> 0]
Unparsable == [kind |-> "abc", n |-> 0]
Parsed(n) == [kind |-> "decimal", n |-> n]

QuantityTokens == {Custom, Unparsable} \cup {Parsed(n) : n \in QuantityValues}
PriceTokens == {Custom, Unparsable} \cup {Parsed(n) : n \in PriceValues}

None == <<>>
Some(v) == <<v>>

-----------------------------------------------------------------------------
(* Free text: the characters of a message, and what Decimal() makes of them *)

DigitChars == <<"0", "1", "2", "3", "4", "5", "6", "7", "8", "9">>

IsDigit(c) == \E i \in 1..Len(DigitChars) : DigitChars[i] = c

DigitValue(c) == (CHOOSE i \in 1..Len(DigitChars) : DigitChars[i] = c) - 1

RECURSIVE Pow10(_)
Pow10(k) == IF k = 0 THEN 1 ELSE 10 * Pow10(k - 1)

\* the number a sequence of digits writes
RECURSIVE Num(_)
Num(digits) ==
    IF digits = <<>> THEN 0
    ELSE 10 * Num(SubSeq(digits, 1, Len(digits) - 1)) + DigitValue(digits[Len(digits)])

\* variant: the text is taken as typed, a comma stays a comma
raw_value_as_typed(text) == text

\* message_text.replace(",", ".")
raw_value(text) == [i \in 1..Len(text) |-> IF text[i] = "," THEN "." ELSE text[i]]

\* Decimal(raw): an optional sign, digits with at most one point among them
\* and at least one digit, else InvalidOperation; the value counts
\* 10^-places (the texts of the model have at most that many decimals)
Decimal(raw, places) ==
    LET signed == raw # <<>> /\ raw[1] \in {"-", "+"}
        body == IF signed THEN Tail(raw) ELSE raw
        points == {i \in 1..Len(body) : body[i] = "."}
        digits == SelectSeq(body, IsDigit)
        decimals == IF points = {} THEN 0
                    ELSE Len(body) - (CHOOSE i \in points : TRUE)
    IN  IF \/ Cardinality(points) > 1
           \/ Len(digits) = 0
           \/ Len(digits) + Cardinality(points) # Len(body)
           \/ decimals > places
        THEN Unparsable
        ELSE Parsed((IF signed /\ raw[1] = "-" THEN -1 ELSE 1)
                    * Num(digits) * Pow10(places - decimals))

\* the message texts of the model where a quantity is typed
QuantityMessages ==
    {<<"a", "b", "c">>, <<"1", ",", "2", ",", "5">>, <<"0">>, <<"-", "1">>,
     <<"0", ",", "0", "0", "0", "4">>, <<"0", ",", "5">>, <<"0", ".", "5">>,
     <<"1">>, <<"1", ",", "0">>}

\* the message texts of the model where a unit price is typed
PriceMessages ==
    {<<"a", "b", "c">>, <<"0">>, <<"-", "1">>, <<"0", ",", "0", "0", "4">>,
     <<"0", ",", "0", "1">>, <<"0", ".", "0", "1">>}

\* the quantity _process_quantity reads in a message (counting 0.0001)
quantity_of(text) == Decimal(raw_value(text), 4)

\* the unit price _process_saida_value reads in a message (counting 0.001)
unit_price_of(text) == Decimal(raw_value(text), 3)

-----------------------------------------------------------------------------
(* Decimal and NUMERIC arithmetic *)

\* NUMERIC(14,3) column: a non-negative quantity in 0.0001 rounded to 0.001,
\* ties away from zero
Numeric3(x) == ((x + 5) \div 10) * 10

\* NUMERIC(14,2) column: a price in 0.001 rounded to 0.01, ties away from zero
Numeric2(x) == IF x >= 0 THEN ((x + 5) \div 10) * 10
               ELSE 0 - (((0 - x) + 5) \div 10) * 10

\* n / d rounded to an integer, ties to the even neighbour (the decimal
\* context's default rounding, ROUND_HALF_EVEN)
RoundHalfEven(n, d) ==
    LET q == n \div d
        r == n - q * d
    IN  IF 2 * r < d THEN q
        ELSE IF 2 * r > d THEN q + 1
        ELSE IF q % 2 = 0 THEN q ELSE q + 1

\* (quantity * unit_price).quantize(Decimal("0.01")), in 0.01:
\* quantity counts 0.0001 and unit_price 0.001, so the product counts 10^-7
total_value(quantity, unit_price) == RoundHalfEven(quantity * unit_price, 100000)

\* format_currency(value) of a price in 0.001: quantized to 0.01
format_currency(value) == RoundHalfEven(value, 10)

-----------------------------------------------------------------------------
(* UserSession and the sessions dict *)

UserSession(action, awaiting) ==
    [action |-> action, awaiting |-> awaiting, product_id |-> None,
     category |-> "None", pending_quantity |-> None, is_brinde |-> FALSE]

HasSession(u) == user_id(u) \in DOMAIN sessions

\* self.sessions[u] = s (also: s is the stored object, mutated in place)
Store(u, s) ==
    [v \in (DOMAIN sessions) \cup {user_id(u)} |-> IF v = user_id(u) THEN s ELSE sessions[v]]

\* variant: the dict is cleared, every user's session goes
Pop_every_session(u) == [v \in {} |-> sessions[v]]

\* self.sessions.pop(u, None)
Pop(u) == [v \in (DOMAIN sessions) \ {user_id(u)} |-> sessions[v]]

-----------------------------------------------------------------------------
(* The adjust_stock call a handler awaits *)

NoNote == [brinde |-> FALSE, valor |-> None, total |-> None]

IdleCall == [st |-> "idle", product_id |-> 0, movement_type |-> "None",
             quantity |-> 0, valor_unitario |-> None, observacao |-> NoNote,
             current |-> 0]

Idle(u) == call[u].st = "idle"

\* the row of product p is locked FOR UPDATE by an open transaction
RowLocked(p) == \E u \in Tasks : call[u].st = "locked" /\ call[u].product_id = p

\* the amount is one a NUMERIC(14,3) column keeps as it is (three decimals)
ThreeDecimals(quantity) == quantity % 10 = 0

\* history of a product since it was seeded or cleared: the sum of the signed
\* amounts of the calls that succeeded, followed up to the first amount the
\* store does not keep as it is (exact tells whether none came yet)
Seeded == [exact |-> TRUE, sum |-> 0]

Init ==
    /\ quantidade = [p \in Products |-> 0]
    /\ movimentacoes = <<>>
    /\ sessions = [v \in {} |-> UserSession("None", "None")]
    /\ call = [u \in Tasks |-> IdleCall]
    /\ applied = [p \in Products |-> Seeded]
    /\ produtos = Products

-----------------------------------------------------------------------------
(* What a handler leaves behind: the sessions dict and the awaited call *)

Keep(u, s) == [sessions |-> Store(u, s), call |-> call]

Drop(u) == [sessions |-> Pop(u), call |-> call]

Await(u, s, c) == [sessions |-> Store(u, s), call |-> [call EXCEPT ![u] = c]]

\* quantities of the entrada calls on product p still in flight
RECURSIVE PendingIn(_, _)
PendingIn(S, p) ==
    IF S = {} THEN 0
    ELSE LET u == CHOOSE v \in S : TRUE
             c == call[u]
         IN  (IF c.st # "idle" /\ c.product_id = p /\ c.movement_type = "entrada"
              THEN c.quantity ELSE 0) + PendingIn(S \ {u}, p)

\* the bounds of the model: a call is started only while the table and the
\* stock stay within MaxMov and MaxStock
WithinBounds(c) ==
    /\ Len(movimentacoes) < MaxMov
    /\ (c.movement_type = "entrada" /\ c.product_id \in Products)
           => quantidade[c.product_id] + PendingIn(Tasks, c.product_id) + c.quantity
                  <= MaxStock

\* a handler ran to its end, or to its await of adjust_stock
Handled(u, eff) ==
    /\ Idle(u)
    /\ eff.call[u].st # "idle" => WithinBounds(eff.call[u])
    /\ sessions' = eff.sessions
    /\ call' = eff.call
    /\ UNCHANGED <<quantidade, movimentacoes, applied, produtos>>

-----------------------------------------------------------------------------
(* EosBot helpers *)

\* the observacao text: its [BRINDE] tag, "Valor unitario" and "Total" parts
observacao(session, total, unit_price) ==
    IF session.action = "saida"
    THEN [brinde |-> session.is_brinde,
          valor |-> IF unit_price # None THEN Some(format_currency(unit_price[1])) ELSE None,
          total |-> total]
    ELSE NoNote

\* adjust_stock up to asyncio.to_thread(_adjust): DatabaseError for a quantity
\* <= 0 (no call is left), else the call that _adjust runs
adjust_stock(product_id, movement_type, quantity, valor_unitario, note) ==
    IF quantity <= 0 THEN IdleCall
    ELSE [st |-> "waiting", product_id |-> product_id,
          movement_type |-> movement_type, quantity |-> quantity,
          valor_unitario |-> valor_unitario, observacao |-> note, current |-> 0]

\* _apply_stock_movement up to its await of self.db.adjust_stock; the
\* DatabaseError of a quantity <= 0 is caught and the session left as it is
apply_stock_movement(u, session, quantity, total, unit_price) ==
    IF session.action \notin {"entrada", "saida"} THEN Drop(u)
    ELSE IF session.product_id = None THEN Drop(u)
    ELSE LET c == adjust_stock(session.product_id[1], session.action, quantity,
                               IF session.action = "saida" THEN unit_price ELSE None,
                               observacao(session, total, unit_price))
         IN  IF c.st = "idle" THEN Keep(u, session) ELSE Await(u, session, c)

\* variant: the is_brinde branch is missing, a brinde is priced like a sale
handle_confirmed_quantity_priced(u, session, quantity) ==
    IF quantity <= 0
    THEN Keep(u, [session EXCEPT !.awaiting = "quantity_choice"])
    ELSE IF session.action = "saida"
    THEN IF quantity > quantidade[session.product_id[1]]
         THEN Keep(u, [session EXCEPT !.awaiting = "quantity_choice"])
         ELSE Keep(u, [session EXCEPT !.pending_quantity = Some(quantity),
                                      !.awaiting = "saida_value"])
    ELSE apply_stock_movement(u, [session EXCEPT !.awaiting = "None"],
                              quantity, None, None)

\* variant: a saida is applied at once like an entrada, no price is asked
handle_confirmed_quantity_unpriced(u, session, quantity) ==
    IF quantity <= 0
    THEN Keep(u, [session EXCEPT !.awaiting = "quantity_choice"])
    ELSE IF session.action = "saida" /\ quantity > quantidade[session.product_id[1]]
    THEN Keep(u, [session EXCEPT !.awaiting = "quantity_choice"])
    ELSE apply_stock_movement(u, [session EXCEPT !.awaiting = "None"],
                              quantity, None, None)

\* variant: the quantity of a saida is not compared with the stock
handle_confirmed_quantity_unchecked(u, session, quantity) ==
    IF quantity <= 0
    THEN Keep(u, [session EXCEPT !.awaiting = "quantity_choice"])
    ELSE IF session.action = "saida"
    THEN IF session.is_brinde
         THEN apply_stock_movement(u, [session EXCEPT !.awaiting = "None"],
                                   quantity, Some(0), Some(0))
         ELSE Keep(u, [session EXCEPT !.pending_quantity = Some(quantity),
                                      !.awaiting = "saida_value"])
    ELSE apply_stock_movement(u, [session EXCEPT !.awaiting = "None"],
                              quantity, None, None)

\* _handle_confirmed_quantity, product being the row just read
handle_confirmed_quantity(u, session, quantity) ==
    IF quantity <= 0
    THEN Keep(u, [session EXCEPT !.awaiting = "quantity_choice"])
    ELSE IF session.action = "saida"
    THEN IF quantity > quantidade[session.product_id[1]]
         THEN Keep(u, [session EXCEPT !.awaiting = "quantity_choice"])
         ELSE IF session.is_brinde
         THEN apply_stock_movement(u, [session EXCEPT !.awaiting = "None"],
                                   quantity, Some(0), Some(0))
         ELSE Keep(u, [session EXCEPT !.pending_quantity = Some(quantity),
                                      !.awaiting = "saida_value"])
    ELSE apply_stock_movement(u, [session EXCEPT !.awaiting = "None"],
                              quantity, None, None)

\* variant: every row is returned, whatever its category
fetch_products(category) == produtos

\* fetch_products_by_category: the ids of the rows of a category
fetch_products_by_category(category) == {p \in produtos : categoria(p) = category}

\* variant: the prompt asks for a typed quantity
show_quantity_prompt_manual(session) == [session EXCEPT !.awaiting = "quantity_manual"]

\* _show_quantity_prompt
show_quantity_prompt(session) == [session EXCEPT !.awaiting = "quantity_choice"]

\* _show_category_prompt
show_category_prompt(session) ==
    [session EXCEPT !.awaiting = "category", !.category = "None",
                    !.pending_quantity = None]

\* variant: the pending quantity is not popped
show_products_prompt_keeps_pending(u, session) ==
    IF session.category = "None" THEN Keep(u, show_category_prompt(session))
    ELSE IF fetch_products_by_category(session.category) = {} THEN Drop(u)
    ELSE Keep(u, [session EXCEPT !.awaiting = "product"])

\* _show_products_prompt
show_products_prompt(u, session) ==
    LET s == [session EXCEPT !.pending_quantity = None]
    IN  IF s.category = "None" THEN Keep(u, show_category_prompt(s))
        ELSE IF fetch_products_by_category(s.category) = {} THEN Drop(u)
        ELSE Keep(u, [s EXCEPT !.awaiting = "product"])

\* variant: an existing session is reused, only its direction and awaiting
\* state are set
start_stock_flow_reuses(u, action) ==
    Keep(u, IF HasSession(u)
            THEN [sessions[user_id(u)] EXCEPT !.action = action, !.awaiting = "category"]
            ELSE UserSession(action, "category"))

\* _start_stock_flow
start_stock_flow(u, action) == Keep(u, UserSession(action, "category"))

\* _start_iaeos
start_iaeos(u) == Keep(u, UserSession("iaeos", "iaeos_question"))

-----------------------------------------------------------------------------
(* The same helpers with the rendering made explicit: the session carries   *)
(* metadata["last_message_id"], and message tells whether the update has a  *)
(* message the handler can edit.  The ids are "query" (the message of the   *)
(* update), "last" (the one the session refers to) and "new" (one just sent) *)

\* a session object together with its last rendered message, if any
WithMessage(session, last) == [last_message |-> last] @@ session

\* the session without the reference to its last rendered message
Committed(session) == [f \in (DOMAIN session) \ {"last_message"} |-> session[f]]

\* what a handler leaves behind, without the references to rendered messages
CommittedState(eff) ==
    [sessions |-> [v \in DOMAIN eff.sessions |-> Committed(eff.sessions[v])],
     call |-> eff.call]

\* _store_message_reference
store_message_reference(session, id) == [session EXCEPT !.last_message = Some(id)]

\* _edit_with_typing(message, ..., session=session)
edit_with_typing(session) == store_message_reference(session, "query")

\* _edit_session_message: None when the session refers to no message, else
\* that message is edited and referred to again
edit_session_message(session) ==
    IF session.last_message = None THEN None
    ELSE Some(store_message_reference(session, session.last_message[1]))

\* variant: sending a new message also forgets the pending quantity
send_message_forgets(session) ==
    [store_message_reference(session, "new") EXCEPT !.pending_quantity = None]

\* context.bot.send_message followed by _store_message_reference
send_message(session) == store_message_reference(session, "new")

\* if message: edit it; else: edit the session's message, or send a new one
edit_or_send(session, message) ==
    IF message THEN edit_with_typing(session)
    ELSE LET edited == edit_session_message(session)
         IN  IF edited = None THEN send_message(session) ELSE edited[1]

\* _handle_confirmed_quantity with its message argument
handle_confirmed_quantity_message(u, session, quantity, message) ==
    IF quantity <= 0
    THEN Keep(u, edit_or_send([session EXCEPT !.awaiting = "quantity_choice"], message))
    ELSE IF session.action = "saida"
    THEN IF quantity > quantidade[session.product_id[1]]
         THEN Keep(u, edit_or_send([session EXCEPT !.awaiting = "quantity_choice"], message))
         ELSE IF session.is_brinde
         THEN apply_stock_movement(u, [session EXCEPT !.awaiting = "None"],
                                   quantity, Some(0), Some(0))
         ELSE Keep(u, edit_or_send([session EXCEPT !.pending_quantity = Some(quantity),
                                                   !.awaiting = "saida_value"], message))
    ELSE apply_stock_movement(u, [session EXCEPT !.awaiting = "None"],
                              quantity, None, None)

\* _start_stock_flow with the message of its update: edited (menu button) or
\* replied to (command) when there is one, nothing rendered otherwise
start_stock_flow_message(u, action, message) ==
    LET session == WithMessage(UserSession(action, "category"), None)
    IN  Keep(u, IF message THEN edit_with_typing(session) ELSE session)

-----------------------------------------------------------------------------
(* The handlers registered in _register_handlers, one action each *)

\* variant: /start shows the menu and leaves the session where it is
handle_start_keeps_session(u) == Handled(u, [sessions |-> sessions, call |-> call])

\* /start
handle_start(u) == Handled(u, Drop(u))

\* /entrada and /saida
handle_flow_command(u, action) == Handled(u, start_stock_flow(u, action))

\* menu:<action>
handle_menu_selection(u, action) ==
    Handled(u,
        CASE action = "home" -> Drop(u)
          [] action \in {"entrada", "saida"} -> start_stock_flow(u, action)
          [] action = "iaeos" -> start_iaeos(u)
          [] OTHER -> [sessions |-> sessions, call |-> call])

\* categoria:<action>:<category>
handle_category_selection(u, action, category) ==
    LET s0 == IF HasSession(u)
              THEN [sessions[user_id(u)] EXCEPT !.action = action, !.awaiting = "category"]
              ELSE UserSession(action, "category")
        s1 == [s0 EXCEPT !.category = category]
    IN  Handled(u,
            IF action \notin {"entrada", "saida"} THEN Drop(u)
            ELSE IF action = "saida" /\ category = "brindes"
            THEN IF fetch_products_by_category("cafes") = {} THEN Drop(u)
                 ELSE Keep(u, [s1 EXCEPT !.is_brinde = TRUE, !.category = "cafes",
                                         !.awaiting = "product"])
            ELSE IF fetch_products_by_category(category) = {} THEN Drop(u)
            ELSE Keep(u, [s1 EXCEPT !.awaiting = "product"]))

\* produto:<action>:<id>
handle_product_selection(u, action, id) ==
    LET s0 == IF HasSession(u) THEN [sessions[user_id(u)] EXCEPT !.action = action]
              ELSE UserSession(action, "product")
        s1 == [s0 EXCEPT !.product_id = Some(id)]
    IN  Handled(u,
            IF action \notin {"entrada", "saida"} THEN Drop(u)
            ELSE IF id \notin produtos THEN Drop(u)
            ELSE Keep(u, show_quantity_prompt(s1)))

\* quantidade:<action>:<value>
handle_quantity_selection(u, action, value) ==
    Handled(u,
        IF ~HasSession(u) THEN Drop(u)
        ELSE IF sessions[user_id(u)].product_id = None THEN Drop(u)
        ELSE LET s == [sessions[user_id(u)] EXCEPT !.action = action]
             IN  IF s.product_id[1] \notin produtos THEN Drop(u)
                 ELSE IF value = Custom
                 THEN Keep(u, [s EXCEPT !.awaiting = "quantity_manual"])
                 ELSE IF value = Unparsable THEN Keep(u, s)
                 ELSE handle_confirmed_quantity(u, s, value.n))

\* flow:<action>:<command>
handle_flow_navigation(u, action, command) ==
    LET s == IF HasSession(u) THEN [sessions[user_id(u)] EXCEPT !.action = action]
             ELSE UserSession(action, "None")
    IN  Handled(u,
            CASE command = "back_to_categories" -> Keep(u, show_category_prompt(s))
              [] command = "back_to_products" -> show_products_prompt(u, s)
              [] command = "back_to_quantity" ->
                    IF s.product_id = None THEN show_products_prompt(u, s)
                    ELSE IF s.product_id[1] \notin produtos
                    THEN show_products_prompt(u, s)
                    ELSE Keep(u, show_quantity_prompt(s))
              [] command = "restart" -> start_stock_flow(u, action)
              [] OTHER -> Keep(u, s))

\* variant: a text that is no positive number ends the flow
process_quantity_restarts(u, session, text) ==
    IF text = Unparsable THEN Drop(u)
    ELSE IF text.n <= 0 THEN Drop(u)
    ELSE IF session.product_id = None THEN Drop(u)
    ELSE IF session.product_id[1] \notin produtos THEN Drop(u)
    ELSE handle_confirmed_quantity(u, session, text.n)

\* _process_quantity: free text while a quantity is awaited
process_quantity(u, session, text) ==
    IF text = Unparsable
    THEN Keep(u, [session EXCEPT !.awaiting = "quantity_manual"])
    ELSE IF text.n <= 0
    THEN Keep(u, [session EXCEPT !.awaiting = "quantity_manual"])
    ELSE IF session.product_id = None THEN Drop(u)
    ELSE IF session.product_id[1] \notin produtos THEN Drop(u)
    ELSE handle_confirmed_quantity(u, session, text.n)

\* the tail shared by _process_saida_value and handle_value_selection:
\* pending quantity, product id and product are looked up, then the commit
commit_saida_value(u, session, unit_price) ==
    IF session.pending_quantity = None THEN Drop(u)
    ELSE IF session.product_id = None THEN Drop(u)
    ELSE IF session.product_id[1] \notin produtos THEN Drop(u)
    ELSE apply_stock_movement(u, [session EXCEPT !.awaiting = "None"],
                              session.pending_quantity[1],
                              Some(total_value(session.pending_quantity[1], unit_price)),
                              Some(unit_price))

\* variant: a refused price forgets the pending quantity
process_saida_value_forgets(u, session, text) ==
    IF text = Unparsable
    THEN Keep(u, [session EXCEPT !.awaiting = "saida_value", !.pending_quantity = None])
    ELSE IF text.n <= 0
    THEN Keep(u, [session EXCEPT !.awaiting = "saida_value", !.pending_quantity = None])
    ELSE commit_saida_value(u, session, text.n)

\* _process_saida_value: free text while a unit price is awaited
process_saida_value(u, session, text) ==
    IF text = Unparsable
    THEN Keep(u, [session EXCEPT !.awaiting = "saida_value"])
    ELSE IF text.n <= 0
    THEN Keep(u, [session EXCEPT !.awaiting = "saida_value"])
    ELSE commit_saida_value(u, session, text.n)

\* free text; a quantity where a quantity is awaited, a price where a price is
handle_text_message(u, text) ==
    Handled(u,
        IF ~HasSession(u) THEN [sessions |-> sessions, call |-> call]
        ELSE LET s == sessions[user_id(u)]
             IN  IF s.action \in {"entrada", "saida"}
                    /\ s.awaiting \in {"quantity_choice", "quantity_manual"}
                 THEN process_quantity(u, s, text)
                 ELSE IF s.action = "saida" /\ s.awaiting = "saida_value"
                 THEN process_saida_value(u, s, text)
                 ELSE IF s.awaiting = "brinde_description" THEN Drop(u)
                 ELSE IF s.action = "iaeos" /\ s.awaiting = "iaeos_question"
                 THEN Keep(u, s)
                 ELSE Drop(u))

\* valor:<action>:<value>
handle_value_selection(u, action, value) ==
    Handled(u,
        IF ~HasSession(u) THEN Drop(u)
        ELSE IF sessions[user_id(u)].action # "saida" THEN Drop(u)
        ELSE LET s == sessions[user_id(u)]
             IN  IF value = Custom THEN Keep(u, [s EXCEPT !.awaiting = "saida_value"])
                 ELSE IF value = Unparsable THEN Keep(u, s)
                 ELSE commit_saida_value(u, s, value.n))

\* iaeos:<option>
handle_ia_panel_selection(u) ==
    Handled(u,
        IF HasSession(u) /\ sessions[user_id(u)].action = "iaeos"
        THEN Keep(u, [sessions[user_id(u)] EXCEPT !.awaiting = "iaeos_question"])
        ELSE Keep(u, UserSession("iaeos", "iaeos_question")))

\* variant: clearing the stock also empties tb_movimentacoes
clear_stock_and_history(u) ==
    /\ Idle(u)
    /\ \A p \in Products : ~RowLocked(p)
    /\ quantidade' = [p \in Products |-> 0]
    /\ applied' = [p \in Products |-> Seeded]
    /\ movimentacoes' = <<>>
    /\ UNCHANGED <<sessions, call, produtos>>

\* admin:do_clear_stock -> clear_stock: UPDATE tb_produtos SET quantidade = 0.
\* The statement waits for every row lock, so it commits when none is held.
clear_stock(u) ==
    /\ Idle(u)
    /\ \A p \in Products : ~RowLocked(p)
    /\ quantidade' = [p \in Products |-> 0]
    /\ applied' = [p \in Products |-> Seeded]
    /\ UNCHANGED <<movimentacoes, sessions, call, produtos>>

\* variant: the DELETE has no WHERE clause, entradas go as well
clear_saidas_history_unfiltered(u) ==
    /\ Idle(u)
    /\ movimentacoes' = <<>>
    /\ UNCHANGED <<quantidade, sessions, call, applied, produtos>>

\* admin:do_clear_saidas -> clear_saidas_history
clear_saidas_history(u) ==
    /\ Idle(u)
    /\ movimentacoes' = SelectSeq(movimentacoes, LAMBDA m : m.tipo_movimentacao # "saida")
    /\ UNCHANGED <<quantidade, sessions, call, applied, produtos>>

\* admin:do_clear_history -> clear_all_history
clear_all_history(u) ==
    /\ Idle(u)
    /\ movimentacoes' = <<>>
    /\ UNCHANGED <<quantidade, sessions, call, applied, produtos>>

-----------------------------------------------------------------------------
(* DatabaseManager.adjust_stock._adjust, run in a worker thread on its own   *)
(* connection: the locking read, then the write and the commit.  Each step  *)
(* that ends the call also runs the rest of _apply_stock_movement, which    *)
(* the handler resumes with the call's outcome.                             *)

\* variant: the read takes no lock (SELECT without FOR UPDATE)
select_without_lock(p) == TRUE

\* variant: the read locks the whole table (LOCK TABLE tb_produtos)
select_table_lock(p) == \A q \in Products : ~RowLocked(q)

\* SELECT quantidade ... FOR UPDATE may proceed on the row of product p
select_for_update(p) == ~RowLocked(p)

\* the row is read under its lock
adjust_lock(u) ==
    /\ call[u].st = "waiting"
    /\ call[u].product_id \in produtos
    /\ select_for_update(call[u].product_id)
    /\ call' = [call EXCEPT ![u].st = "locked",
                            ![u].current = quantidade[call[u].product_id]]
    /\ UNCHANGED <<quantidade, movimentacoes, sessions, applied, produtos>>

\* variant: ProductNotFoundError is handled like any DatabaseError, the
\* session stays
adjust_not_found_keeps_session(u) ==
    /\ call[u].st = "waiting"
    /\ call[u].product_id \notin produtos
    /\ call' = [call EXCEPT ![u] = IdleCall]
    /\ UNCHANGED <<quantidade, movimentacoes, sessions, applied, produtos>>

\* no row: ProductNotFoundError; the handler pops the session
adjust_not_found(u) ==
    /\ call[u].st = "waiting"
    /\ call[u].product_id \notin produtos
    /\ call' = [call EXCEPT ![u] = IdleCall]
    /\ sessions' = Pop(u)
    /\ UNCHANGED <<quantidade, movimentacoes, applied, produtos>>

\* variant: the amount is subtracted whatever the movement type
delta_always_out(c) == 0 - c.quantity

delta(c) == IF c.movement_type = "entrada" THEN c.quantity ELSE 0 - c.quantity

new_quantity(c) == c.current + delta(c)

\* variant: the check of new_quantity is missing
insufficient_unchecked(c) == FALSE

\* variant: the check also refuses the saida that empties the stock
insufficient_at_zero(c) == c.movement_type # "entrada" /\ new_quantity(c) <= 0

\* if new_quantity < 0: raise InsufficientStockError
insufficient(c) == new_quantity(c) < 0

\* the history after the call c succeeded
record_applied(h, c) ==
    IF h.exact
    THEN [exact |-> ThreeDecimals(c.quantity), sum |-> h.sum + delta(c)]
    ELSE h

\* the row INSERTed into tb_movimentacoes, as its columns keep it
movement_row(c) ==
    [id_produto |-> c.product_id,
     tipo_movimentacao |-> c.movement_type,
     quantidade |-> Numeric3(c.quantity),
     valor_unitario |-> IF c.valor_unitario = None THEN None
                        ELSE Some(Numeric2(c.valor_unitario[1])),
     observacao |-> c.observacao]

\* variant: the UPDATE is committed, the INSERT is not
adjust_commit_update_only(u) ==
    /\ call[u].st = "locked"
    /\ ~insufficient(call[u])
    /\ Len(movimentacoes) < MaxMov
    /\ quantidade' = [quantidade EXCEPT ![call[u].product_id] = Numeric3(new_quantity(call[u]))]
    /\ applied' = [applied EXCEPT ![call[u].product_id] = record_applied(@, call[u])]
    /\ call' = [call EXCEPT ![u] = IdleCall]
    /\ sessions' = Pop(u)
    /\ UNCHANGED <<movimentacoes, produtos>>

\* variant: the handler keeps the session after the commit
adjust_commit_keeps_session(u) ==
    /\ call[u].st = "locked"
    /\ ~insufficient(call[u])
    /\ Len(movimentacoes) < MaxMov
    /\ quantidade' = [quantidade EXCEPT ![call[u].product_id] = Numeric3(new_quantity(call[u]))]
    /\ movimentacoes' = Append(movimentacoes, movement_row(call[u]))
    /\ applied' = [applied EXCEPT ![call[u].product_id] = record_applied(@, call[u])]
    /\ call' = [call EXCEPT ![u] = IdleCall]
    /\ UNCHANGED <<sessions, produtos>>

\* UPDATE, INSERT, commit; the handler pops the session
adjust_commit(u) ==
    /\ call[u].st = "locked"
    /\ ~insufficient(call[u])
    /\ Len(movimentacoes) < MaxMov
    /\ quantidade' = [quantidade EXCEPT ![call[u].product_id] = Numeric3(new_quantity(call[u]))]
    /\ movimentacoes' = Append(movimentacoes, movement_row(call[u]))
    /\ applied' = [applied EXCEPT ![call[u].product_id] = record_applied(@, call[u])]
    /\ call' = [call EXCEPT ![u] = IdleCall]
    /\ sessions' = Pop(u)
    /\ UNCHANGED produtos

\* variant: the refused saida is written, the stock goes below zero
adjust_insufficient_writes(u) ==
    /\ call[u].st = "locked"
    /\ insufficient(call[u])
    /\ call' = [call EXCEPT ![u] = IdleCall]
    /\ sessions' = IF HasSession(u)
                   THEN Store(u, [sessions[user_id(u)] EXCEPT !.awaiting = "quantity_choice"])
                   ELSE sessions
    /\ quantidade' = [quantidade EXCEPT ![call[u].product_id] = new_quantity(call[u])]
    /\ UNCHANGED <<movimentacoes, applied, produtos>>

\* variant: the refused transaction stays open, its row lock is kept
adjust_insufficient_stalls(u) ==
    /\ call[u].st = "locked"
    /\ insufficient(call[u])
    /\ UNCHANGED vars

\* InsufficientStockError: the connection closes without a commit; the
\* handler sends the session back to quantity_choice
adjust_insufficient(u) ==
    /\ call[u].st = "locked"
    /\ insufficient(call[u])
    /\ call' = [call EXCEPT ![u] = IdleCall]
    /\ sessions' = IF HasSession(u)
                   THEN Store(u, [sessions[user_id(u)] EXCEPT !.awaiting = "quantity_choice"])
                   ELSE sessions
    /\ UNCHANGED <<quantidade, movimentacoes, applied, produtos>>

\* psycopg raises (no connection, connection lost): nothing is committed, the
\* error is no DatabaseError and leaves _apply_stock_movement uncaught
adjust_error(u) ==
    /\ call[u].st \in {"waiting", "locked"}
    /\ call' = [call EXCEPT ![u] = IdleCall]
    /\ UNCHANGED <<quantidade, movimentacoes, sessions, applied, produtos>>

-----------------------------------------------------------------------------

\* the texts delivered to user u, as the handlers read them: a price typed
\* while a price is awaited, a quantity typed otherwise
Texts(u) ==
    IF HasSession(u) /\ sessions[user_id(u)].awaiting = "saida_value"
    THEN {unit_price_of(t) : t \in PriceMessages}
    ELSE {quantity_of(t) : t \in QuantityMessages}

\* one step of user u: a handler runs on an update whose fields are drawn from
\* the given sets, or the adjust_stock call the user's handler awaits moves on
Step(u, As, Cs, Ids, Qs, Ps, Ns, Ms) ==
    \/ handle_start(u)
    \/ \E a \in As \cap {"entrada", "saida"} : handle_flow_command(u, a)
    \/ \E a \in Ms : handle_menu_selection(u, a)
    \/ \E a \in As, c \in Cs : handle_category_selection(u, a, c)
    \/ \E a \in As, id \in Ids : handle_product_selection(u, a, id)
    \/ \E a \in As, v \in Qs : handle_quantity_selection(u, a, v)
    \/ \E a \in As, c \in Ns : handle_flow_navigation(u, a, c)
    \/ \E t \in Texts(u) : handle_text_message(u, t)
    \/ \E a \in As, v \in Ps : handle_value_selection(u, a, v)
    \/ handle_ia_panel_selection(u)
    \/ clear_stock(u)
    \/ clear_saidas_history(u)
    \/ clear_all_history(u)
    \/ adjust_lock(u)
    \/ adjust_commit(u)
    \/ adjust_insufficient(u)
    \/ adjust_error(u)

\* one user, every kind of update
Next ==
    \E u \in {"u1"} :
        Step(u, Actions, Categories, {1, 9}, QuantityTokens, PriceTokens,
             NavCommands, MenuActions)

Spec == Init /\ [][Next]_vars

-----------------------------------------------------------------------------
(* Two users in the stock flow of one product: the buttons of the flow only *)

PairQuantity == Parsed(10000)    \* the quantity button both users press (1 unit)
PairPrice == Parsed(10)          \* the price button both users press (0.01)

NextPair ==
    \E u \in Users :
        \/ \E a \in {"entrada", "saida"} : handle_category_selection(u, a, "cafes")
        \/ \E a \in {"entrada", "saida"} : handle_product_selection(u, a, 1)
        \/ \E a \in {"entrada", "saida"} : handle_quantity_selection(u, a, PairQuantity)
        \/ handle_value_selection(u, "saida", PairPrice)
        \/ clear_all_history(u)
        \/ adjust_lock(u)
        \/ adjust_commit(u)
        \/ adjust_insufficient(u)

SpecPair == Init /\ [][NextPair]_vars

-----------------------------------------------------------------------------
(* DatabaseManager on its own: two callers of adjust_stock with any          *)
(* arguments, next to the bulk operations                                    *)

\* await db.adjust_stock(product_id, movement_type, quantity) by caller u
call_adjust_stock(u, product_id, movement_type, quantity) ==
    LET c == adjust_stock(product_id, movement_type, quantity, None, NoNote)
    IN  /\ Idle(u)
        /\ c.st # "idle" => WithinBounds(c)
        /\ call' = [call EXCEPT ![u] = c]
        /\ UNCHANGED <<quantidade, movimentacoes, sessions, applied, produtos>>

LedgerQuantities == {0 - 10000, 0, 4, 10000}    \* -1, 0, 0.0004 and 1 unit

NextLedger ==
    \E u \in Users :
        \/ \E p \in ProductIds, t \in {"entrada", "saida"}, q \in LedgerQuantities :
               call_adjust_stock(u, p, t, q)
        \/ clear_stock(u)
        \/ clear_saidas_history(u)
        \/ clear_all_history(u)
        \/ adjust_lock(u)
        \/ adjust_not_found(u)
        \/ adjust_commit(u)
        \/ adjust_insufficient(u)
        \/ adjust_error(u)

SpecLedger == Init /\ [][NextLedger]_vars

-----------------------------------------------------------------------------
(* One user in the stock flow while rows of tb_produtos are deleted by a    *)
(* client of the database other than the bot                                *)

\* the row of product p is deleted; tb_movimentacoes.id_produto REFERENCES
\* tb_produtos(id) ON DELETE CASCADE, so its movements go with it.  The
\* DELETE waits for a row lock, so it commits when none is held.
product_row_deleted(p) ==
    /\ p \in produtos
    /\ ~RowLocked(p)
    /\ produtos' = produtos \ {p}
    /\ movimentacoes' = SelectSeq(movimentacoes, LAMBDA m : m.id_produto # p)
    /\ quantidade' = [quantidade EXCEPT ![p] = 0]
    /\ applied' = [applied EXCEPT ![p] = Seeded]
    /\ UNCHANGED <<sessions, call>>

LossQuantities == {Custom, Parsed(10000)}
LossPrices == {Custom, Parsed(10)}

NextLoss ==
    \/ \E p \in Products : product_row_deleted(p)
    \/ \E u \in {"u1"} :
          \/ \E a \in {"entrada", "saida"} : handle_category_selection(u, a, "cafes")
          \/ \E a \in {"entrada", "saida"}, id \in Products : handle_product_selection(u, a, id)
          \/ \E a \in {"entrada", "saida"}, v \in LossQuantities : handle_quantity_selection(u, a, v)
          \/ \E t \in Texts(u) : handle_text_message(u, t)
          \/ \E v \in LossPrices : handle_value_selection(u, "saida", v)
          \/ adjust_lock(u)
          \/ adjust_not_found(u)
          \/ adjust_commit(u)
          \/ adjust_insufficient(u)

SpecLoss == Init /\ [][NextLoss]_vars

-----------------------------------------------------------------------------
(* One user whose updates are handled by two overlapping handler            *)
(* invocations (a button tapped twice), interleaving at the await of        *)
(* adjust_stock; the handlers take no lock on the session                   *)

TapQuantity == Parsed(5000)     \* the quantity button tapped (0.5 unit)
TapPrice == Parsed(10)          \* the price button tapped (0.01)

NextTap ==
    \E t \in {"u1", "u1b"} :
        \/ \E a \in {"entrada", "saida"} : handle_product_selection(t, a, 1)
        \/ \E a \in {"entrada", "saida"} : handle_quantity_selection(t, a, TapQuantity)
        \/ handle_value_selection(t, "saida", TapPrice)
        \/ clear_all_history(t)
        \/ adjust_lock(t)
        \/ adjust_commit(t)
        \/ adjust_insufficient(t)

SpecTap == Init /\ [][NextTap]_vars

-----------------------------------------------------------------------------
(* DatabaseManager.adjust_stock under fair scheduling: two callers start    *)
(* entradas of one unit on product 1 and on an id without a row, and       *)
(* saidas of two units (more than the stock ever holds) on any id           *)

NextLock ==
    \E u \in Users :
        \/ \E p \in {1, 9} : call_adjust_stock(u, p, "entrada", 10000)
        \/ \E p \in ProductIds : call_adjust_stock(u, p, "saida", 20000)
        \/ clear_stock(u)
        \/ clear_all_history(u)
        \/ adjust_lock(u)
        \/ adjust_not_found(u)
        \/ adjust_commit(u)
        \/ adjust_insufficient(u)
        \/ adjust_error(u)

\* the worker thread of a call runs on: a step of _adjust that stays possible
\* is taken (WF), and a SELECT ... FOR UPDATE that waits for a row lock
\* released again and again obtains it (SF: the lock is granted to waiters)
FairLock ==
    \A u \in Users :
        /\ SF_vars(adjust_lock(u))
        /\ WF_vars(adjust_not_found(u))
        /\ WF_vars(adjust_commit(u))
        /\ WF_vars(adjust_insufficient(u))

SpecLock == Init /\ [][NextLock]_vars /\ FairLock

-----------------------------------------------------------------------------
(* Properties of DatabaseManager.adjust_stock, checked under SpecLedger      *)

\* the signed amount of a call: + for entrada, - for saida
Signed(c) == IF c.movement_type = "entrada" THEN c.quantity ELSE 0 - c.quantity

\* the callers inside the transaction on product p: row read under the lock,
\* neither committed nor rolled back yet
InTransaction(p) == {u \in Users : call[u].st = "locked" /\ call[u].product_id = p}

\* no call on product p is in flight
AllFinished(p) == \A u \in Users : call[u].st = "idle" \/ call[u].product_id # p

\* the call of caller u ends in this step
CallEnds(u) == call[u].st # "idle" /\ call'[u].st = "idle"

LedgerUnchanged == quantidade' = quantidade /\ movimentacoes' = movimentacoes

\* this step appends exactly one Movement, that of call c, and changes no
\* quantity but that of its product
AppendsMovement(c) ==
    /\ Len(movimentacoes') = Len(movimentacoes) + 1
    /\ SubSeq(movimentacoes', 1, Len(movimentacoes)) = movimentacoes
    /\ movimentacoes'[Len(movimentacoes')].id_produto = c.product_id
    /\ movimentacoes'[Len(movimentacoes')].tipo_movimentacao = c.movement_type
    /\ \A q \in Products \ {c.product_id} : quantidade'[q] = quantidade[q]

\* this step applies call c: the quantity moves by the signed amount and the
\* Movement of that amount is appended
AppliesAmount(c) ==
    /\ AppendsMovement(c)
    /\ quantidade'[c.product_id] = quantidade[c.product_id] + Signed(c)
    /\ movimentacoes'[Len(movimentacoes')].quantidade = c.quantity

\* the call c is bound to fail: no such product, or the result is negative
MustFail(c) ==
    \/ c.product_id \notin Products
    \/ c.st = "locked" /\ c.current + Signed(c) < 0

\* a step in which no call ends leaves the table no longer and the
\* quantities as they were, or all zero (clear_stock)
OnlyBulkChanges ==
    /\ Len(movimentacoes') <= Len(movimentacoes)
    /\ quantidade' = quantidade \/ quantidade' = [p \in Products |-> 0]

\* C1: in every reachable state every product's quantity is >= 0, whatever
\* the interleaving of adjust_stock calls (entrada or saida, any positive
\* quantity, any caller, same or different products) and clear_stock calls.
C1_QuantityNeverNegative == \A p \in Products : quantidade[p] >= 0

\* a saida emptied the stock of a product and a second saida on it, read
\* under the lock, is about to be refused
C1_Witness ==
    \E u \in Users :
        /\ call[u].st = "locked" /\ call[u].movement_type = "saida"
        /\ insufficient(call[u])
        /\ quantidade[call[u].product_id] = 0
        /\ Len(movimentacoes) = 1
        /\ movimentacoes[1].tipo_movimentacao = "saida"
        /\ movimentacoes[1].id_produto = call[u].product_id

C4_OneTransactionPerProduct ==
    \A p \in Products :
        /\ Cardinality(InTransaction(p)) <= 1
        /\ \A u \in InTransaction(p) : call[u].current = quantidade[p]

\* one caller is inside the transaction on product 1, after an earlier
\* commit on it, while the other caller waits for the same row
C4_Witness ==
    \E u, v \in Users :
        /\ call[u].st = "locked" /\ call[u].product_id = 1
        /\ call[u].current = 10000
        /\ call[v].st = "waiting" /\ call[v].product_id = 1

\* C6: the lock covers the target row only: while a transaction on product
\* A is in flight, a call waiting for another product B with nobody inside
\* B's transaction can take B's lock, a call inside B's transaction has
\* read B's committed quantity, and the commit of the transaction on A
\* changes neither B's quantity nor B's movements.
C6_RowLockOnly ==
    \A u, v \in Users :
        (/\ call[u].st = "locked" /\ call[v].st # "idle"
         /\ call[v].product_id \in Products
         /\ call[v].product_id # call[u].product_id)
        => /\ (call[v].st = "waiting" /\ InTransaction(call[v].product_id) = {})
                  => ENABLED adjust_lock(v)
           /\ call[v].st = "locked"
                  => call[v].current = quantidade[call[v].product_id]
           /\ ~ENABLED (/\ adjust_commit(u)
                        /\ \/ quantidade'[call[v].product_id]
                                  # quantidade[call[v].product_id]
                           \/ movimentacoes'[Len(movimentacoes')].id_produto
                                  = call[v].product_id)

\* two transactions are in flight at once, one on product 1, one on product 2
C6_Witness ==
    \E u, v \in Users :
        /\ call[u].st = "locked" /\ call[u].product_id = 1
        /\ call[v].st = "locked" /\ call[v].product_id = 2

-----------------------------------------------------------------------------
(* Properties of the stock flow                                              *)

\* C5: two users passed the unlocked check of _handle_confirmed_quantity for
\* a saida on the same product and both commit: each transaction that ends
\* is decided by the quantity committed at that moment, so with stock for
\* one of them the first applies its amount and ends its user's session and
\* the second is refused, changes neither quantity nor table, and leaves its
\* user's session in quantity_choice; the quantity stays >= 0.
C5_RacingSaidas ==
    [][\A u \in Users :
          (CallEnds(u) /\ call[u].st = "locked" /\ call[u].movement_type = "saida")
          => /\ quantidade'[call[u].product_id] >= 0
             /\ IF call[u].quantity <= quantidade[call[u].product_id]
                THEN AppliesAmount(call[u]) /\ u \notin DOMAIN sessions'
                ELSE /\ LedgerUnchanged
                     /\ u \in DOMAIN sessions'
                     /\ sessions'[u].awaiting = "quantity_choice"]_vars

\* both commits were dispatched with stock for one; the saida of one user
\* is committed and that of the other, read under the lock, is about to be
\* refused
C5_Witness ==
    \E u, v \in Users :
        /\ u # v
        /\ call[u].st = "locked" /\ call[u].movement_type = "saida"
        /\ call[u].quantity > call[u].current
        /\ HasSession(u) /\ ~HasSession(v) /\ Idle(v)
        /\ Len(movimentacoes) = 1
        /\ movimentacoes[1].tipo_movimentacao = "saida"
        /\ movimentacoes[1].id_produto = call[u].product_id
        /\ movimentacoes[1].quantidade = call[u].quantity

\* the session of user u holds a product of the table
HasProduct(u) ==
    /\ HasSession(u)
    /\ sessions[u].product_id # None
    /\ sessions[u].product_id[1] \in Products

\* the session of user u takes a typed quantity
TakesQuantityText(u) ==
    /\ HasProduct(u)
    /\ sessions[u].awaiting \in {"quantity_choice", "quantity_manual"}

\* after this step user u is asked for a quantity again and nothing was
\* written or dispatched
RefusedAtQuantity(u) ==
    /\ u \in DOMAIN sessions'
    /\ sessions'[u].awaiting = "quantity_choice"
    /\ call'[u].st = "idle"
    /\ LedgerUnchanged

\* C7: a saida of exactly the available stock is committed and leaves the
\* quantity 0; a saida of more than the available stock (any amount when the
\* stock is 0) is refused, by the flow's check and by the transaction alike:
\* quantity unchanged, no Movement, session in quantity_choice.
C7_SaidaBoundary ==
    \A u \in Users :
        /\ \A q \in QuantityValues :
              (HasProduct(u) /\ q > 0 /\ q > quantidade[sessions[u].product_id[1]])
              => /\ ~ENABLED (/\ handle_quantity_selection(u, "saida", Parsed(q))
                             /\ ~RefusedAtQuantity(u))
                 /\ (TakesQuantityText(u) /\ sessions[u].action = "saida")
                       => ~ENABLED (/\ handle_text_message(u, Parsed(q))
                                    /\ ~RefusedAtQuantity(u))
        /\ (call[u].st = "locked" /\ call[u].movement_type = "saida")
              => IF call[u].quantity <= call[u].current
                 THEN /\ ENABLED adjust_commit(u)
                      /\ ~ENABLED adjust_insufficient(u)
                      /\ call[u].quantity = call[u].current
                            => ~ENABLED (/\ adjust_commit(u)
                                         /\ quantidade'[call[u].product_id] # 0)
                 ELSE /\ ~ENABLED adjust_commit(u)
                      /\ ENABLED adjust_insufficient(u)
                      /\ ~ENABLED (adjust_insufficient(u) /\ ~RefusedAtQuantity(u))

\* a saida of the whole stock of product 1 (one unit) was committed and the
\* user is again at the quantity step of a saida on it, the stock being 0
C7_Witness ==
    /\ quantidade[1] = 0
    /\ Len(movimentacoes) = 1
    /\ movimentacoes[1].id_produto = 1
    /\ movimentacoes[1].tipo_movimentacao = "saida"
    /\ movimentacoes[1].quantidade = 10000
    /\ TakesQuantityText("u1")
    /\ sessions["u1"].action = "saida"
    /\ sessions["u1"].product_id = Some(1)

\* n / d rounded half up, n >= 0
RoundHalfUp(n, d) == (2 * n + d) \div (2 * d)

\* C8: the commit of a saida that is no brinde, with pending quantity Q and
\* unit price P, is a saida of quantity Q at unit price P whose note carries
\* the total Q*P rounded half up to two decimal places.
C8_TotalRoundsHalfUp ==
    \A u \in Users :
        (/\ call[u].st # "idle" /\ call[u].movement_type = "saida"
         /\ ~call[u].observacao.brinde /\ call[u].valor_unitario # None)
        => call[u].observacao.total
              = Some(RoundHalfUp(call[u].quantity * call[u].valor_unitario[1], 100000))

\* the session of user u is a saida of brindes with a product chosen
BrindeAtQuantity(u) ==
    /\ HasProduct(u)
    /\ sessions[u].action = "saida"
    /\ sessions[u].is_brinde
    /\ sessions[u].category = "cafes"

\* after this step the brinde of quantity q is dispatched: a saida at unit
\* price 0.00 with the [BRINDE] tag, the session not asking for a price
BrindeDispatched(u, q) ==
    /\ call'[u].st = "waiting"
    /\ call'[u].movement_type = "saida"
    /\ call'[u].product_id = sessions[u].product_id[1]
    /\ call'[u].quantity = q
    /\ call'[u].valor_unitario = Some(0)
    /\ call'[u].observacao.brinde
    /\ u \in DOMAIN sessions'
    /\ sessions'[u].awaiting # "saida_value"

\* after this step the brinde of call c is in the table, tagged and priced
\* 0.00, and the session of user u is over
BrindeCommitted(u, c) ==
    /\ AppendsMovement(c)
    /\ movimentacoes'[Len(movimentacoes')].valor_unitario = Some(0)
    /\ movimentacoes'[Len(movimentacoes')].observacao.brinde
    /\ u \notin DOMAIN sessions'

\* the brinde flow up to its commit: categoria:saida:brindes offers the
\* products of cafes, and a quantity within the stock is dispatched at once
BrindeFlow(u) ==
    /\ ~ENABLED (/\ handle_category_selection(u, "saida", "brindes")
                 /\ ~(/\ u \in DOMAIN sessions'
                      /\ sessions'[u].action = "saida"
                      /\ sessions'[u].is_brinde
                      /\ sessions'[u].category = "cafes"
                      /\ sessions'[u].awaiting = "product"))
    /\ \A q \in QuantityValues :
          (BrindeAtQuantity(u) /\ q > 0 /\ q <= quantidade[sessions[u].product_id[1]])
          => /\ ~ENABLED (/\ handle_quantity_selection(u, "saida", Parsed(q))
                         /\ ~BrindeDispatched(u, q))
             /\ TakesQuantityText(u)
                   => ~ENABLED (/\ handle_text_message(u, Parsed(q))
                                /\ ~BrindeDispatched(u, q))

\* the call of user u is the commit of a brinde that the stock covers
BrindeInTransaction(u) ==
    /\ call[u].st = "locked"
    /\ call[u].movement_type = "saida"
    /\ call[u].observacao.brinde
    /\ call[u].valor_unitario = Some(0)
    /\ call[u].quantity <= call[u].current

AwaitingStates ==
    {"category", "product", "quantity_choice", "quantity_manual", "saida_value",
     "brinde_description", "iaeos_question"}

\* C10: after every handled event the session of a user is absent or awaits
\* one of the steps of a flow: no stored session has awaiting = None.
C10_AwaitingNeverNone ==
    \A u \in Users :
        (Idle(u) /\ HasSession(u)) => sessions[u].awaiting \in AwaitingStates

\* C11: flow:<action>:back_to_categories, from any session state or none,
\* leaves the session awaiting category with the category and the product
\* id cleared, and sent again it changes nothing further.
C11_BackToCategories ==
    \A u \in Users, a \in {"entrada", "saida"} :
        /\ ~ENABLED (/\ handle_flow_navigation(u, a, "back_to_categories")
                     /\ ~(/\ u \in DOMAIN sessions'
                          /\ sessions'[u].awaiting = "category"
                          /\ sessions'[u].category = "None"
                          /\ sessions'[u].product_id = None))
        /\ (/\ HasSession(u)
            /\ sessions[u].action = a
            /\ sessions[u].awaiting = "category"
            /\ sessions[u].category = "None"
            /\ sessions[u].product_id = None)
           => ~ENABLED (/\ handle_flow_navigation(u, a, "back_to_categories")
                        /\ sessions' # sessions)

-----------------------------------------------------------------------------
(* Properties of the handlers, checked under Spec                            *)

\* the session of user u awaits a typed quantity in quantity_manual, in a
\* flow of a valid direction on a product of the table
InQuantityManual(u) ==
    /\ HasProduct(u)
    /\ sessions[u].action \in {"entrada", "saida"}
    /\ sessions[u].awaiting = "quantity_manual"

\* after this step the session of user u awaits w, with the direction and
\* the product it had, and nothing was written or dispatched
StaysAwaiting(u, w) ==
    /\ u \in DOMAIN sessions'
    /\ sessions'[u].awaiting = w
    /\ sessions'[u].action = sessions[u].action
    /\ sessions'[u].product_id = sessions[u].product_id
    /\ call'[u].st = "idle"
    /\ LedgerUnchanged

\* C12: in quantity_manual a text is read as a decimal with its comma taken
\* for a point ("12,5" is 12.5); a text that reads as a positive value goes
\* on to the quantity confirmation; one that does not parse or reads as a
\* value <= 0 is refused: the session stays in quantity_manual with its
\* direction and product, and no quantity or Movement changes.
C12_ManualQuantityText ==
    /\ quantity_of(<<"1", "2", ",", "5">>) = Parsed(125000)
    /\ quantity_of(<<"a", "b", "c">>) = Unparsable
    /\ \A u \in Users :
          InQuantityManual(u)
          => \A q \in {quantity_of(t) : t \in QuantityMessages} :
                IF q = Unparsable \/ q.n <= 0
                THEN ~ENABLED (/\ handle_text_message(u, q)
                               /\ ~StaysAwaiting(u, "quantity_manual"))
                ELSE ~ENABLED (/\ handle_text_message(u, q)
                               /\ u \in DOMAIN sessions'
                               /\ sessions'[u].awaiting = "quantity_manual")

\* in quantity_manual of a saida the text "0,5" is taken as 0.5 and the flow
\* goes on to the price with that pending quantity
C12_Witness ==
    /\ InQuantityManual("u1")
    /\ sessions["u1"].action = "saida"
    /\ ENABLED (/\ handle_text_message("u1", quantity_of(<<"0", ",", "5">>))
                /\ sessions'["u1"].awaiting = "saida_value"
                /\ sessions'["u1"].pending_quantity = Some(5000))

\* C13: every row of tb_movimentacoes carries a unit price when its
\* tipo_movimentacao is saida and none when it is entrada, whatever the
\* sequence of updates (buttons of the other direction included); the same
\* holds of the row a running adjust_stock call is about to insert
C13_UnitPriceBySaida ==
    /\ \A i \in 1..Len(movimentacoes) :
          /\ movimentacoes[i].tipo_movimentacao \in {"entrada", "saida"}
          /\ movimentacoes[i].tipo_movimentacao = "saida"
                 <=> movimentacoes[i].valor_unitario # None
    /\ \A u \in Users :
          ~Idle(u) => /\ call[u].movement_type \in {"entrada", "saida"}
                      /\ call[u].movement_type = "saida"
                             <=> call[u].valor_unitario # None

C13_Witness ==
    \E i \in 1..Len(movimentacoes) :
        /\ movimentacoes[i].tipo_movimentacao = "saida"
        /\ movimentacoes[i].valor_unitario = Some(10)

-----------------------------------------------------------------------------
(* Further properties of DatabaseManager.adjust_stock, under SpecLedger      *)

\* C14: adjust_stock called with a quantity <= 0 fails before it touches the
\* store (no transaction is opened, the quantities and the table stay as they
\* were), and consequently every row of tb_movimentacoes has a quantity > 0
C14_PositiveQuantity ==
    /\ \A u \in Users, p \in ProductIds, t \in {"entrada", "saida"} :
          \A q \in {n \in LedgerQuantities : n <= 0} :
              ~ENABLED (/\ call_adjust_stock(u, p, t, q)
                        /\ ~(call'[u].st = "idle" /\ LedgerUnchanged))
    /\ \A i \in 1..Len(movimentacoes) : movimentacoes[i].quantidade > 0

\* this step is a bulk clear of tb_movimentacoes: every row, or the saida
\* rows, are deleted and nothing else changes
ClearsMovements ==
    /\ \/ movimentacoes' = <<>>
       \/ movimentacoes' = SelectSeq(movimentacoes, LAMBDA m : m.tipo_movimentacao # "saida")
    /\ quantidade' = quantidade
    /\ call' = call

\* this step adds one row at the end of tb_movimentacoes and leaves the rows
\* that were there as they were
AppendsOneRow ==
    /\ Len(movimentacoes') = Len(movimentacoes) + 1
    /\ SubSeq(movimentacoes', 1, Len(movimentacoes)) = movimentacoes

-----------------------------------------------------------------------------
(* Properties of the sessions, checked under Spec *)

\* C16: the step in which a user's adjust_stock call commits (the call ends
\* and a row is added to tb_movimentacoes) starts with a session of that user
\* and ends with none: a session, from its start to its removal, commits at
\* most one Movement
C16_SessionEndsWithCommit ==
    [][\A u \in Users :
           (CallEnds(u) /\ AppendsOneRow)
               => (HasSession(u) /\ u \notin DOMAIN sessions')]_vars

C16_Witness ==
    /\ HasSession("u1")
    /\ sessions["u1"].action = "saida"
    /\ ENABLED (adjust_commit("u1") /\ "u1" \notin DOMAIN sessions')

\* after the step user u has no session, no call runs for u and the
\* quantities and the table are as before
EndsWithoutSession(u) ==
    /\ u \notin DOMAIN sessions'
    /\ call'[u].st = "idle"
    /\ LedgerUnchanged

\* C17: /start and menu:home, in any session state, remove the user's session
\* and change no quantity and no Movement; and while the user has no session,
\* a quantity button, a price button or a text message starts no adjust_stock
\* call, changes nothing in the store and leaves the user without a session
C17_ReturnToMainMenu ==
    \A u \in Users :
        /\ ~ENABLED (handle_start(u) /\ ~EndsWithoutSession(u))
        /\ ~ENABLED (handle_menu_selection(u, "home") /\ ~EndsWithoutSession(u))
        /\ ~HasSession(u) =>
              /\ \A a \in Actions, v \in QuantityTokens :
                    ~ENABLED (handle_quantity_selection(u, a, v) /\ ~EndsWithoutSession(u))
              /\ \A a \in Actions, v \in PriceTokens :
                    ~ENABLED (handle_value_selection(u, a, v) /\ ~EndsWithoutSession(u))
              /\ \A t \in {quantity_of(m) : m \in QuantityMessages}
                            \cup {unit_price_of(m) : m \in PriceMessages} :
                    ~ENABLED (handle_text_message(u, t) /\ ~EndsWithoutSession(u))

C17_Witness ==
    /\ HasSession("u1")
    /\ sessions["u1"].awaiting = "saida_value"
    /\ sessions["u1"].pending_quantity = Some(10000)
    /\ ENABLED (handle_start("u1") /\ EndsWithoutSession("u1"))

-----------------------------------------------------------------------------
(* Properties of the stock flow when a product row is gone, under SpecLoss   *)

\* the session of user u names a product that has no row
ReferenceLost(u) ==
    /\ HasSession(u)
    /\ sessions[u].product_id # None
    /\ sessions[u].product_id[1] \notin produtos

\* a text that parses to a value > 0
Positive(t) == t # Unparsable /\ t # Custom /\ t.n > 0

\* C18: an update that finds the product id without a row ends the flow: the
\* session is discarded, no adjust_stock call is left running and no quantity
\* or Movement changes.  The updates are a product button of an id without a
\* row, a quantity button, a typed quantity, a price button, a typed price,
\* and the adjust_stock call whose locking read finds no row.
C18_ReferenceLoss ==
    \A u \in Users :
        /\ \A a \in {"entrada", "saida"}, id \in ProductIds \ produtos :
              ~ENABLED (handle_product_selection(u, a, id) /\ ~EndsWithoutSession(u))
        /\ ~ENABLED (adjust_not_found(u) /\ ~EndsWithoutSession(u))
        /\ ReferenceLost(u) =>
              /\ \A a \in {"entrada", "saida"}, v \in QuantityTokens :
                    ~ENABLED (handle_quantity_selection(u, a, v) /\ ~EndsWithoutSession(u))
              /\ \A v \in PriceTokens \ {Custom, Unparsable} :
                    ~ENABLED (handle_value_selection(u, "saida", v) /\ ~EndsWithoutSession(u))
              /\ sessions[u].awaiting \in {"quantity_choice", "quantity_manual", "saida_value"}
                    => \A t \in {x \in Texts(u) : Positive(x)} :
                           ~ENABLED (handle_text_message(u, t) /\ ~EndsWithoutSession(u))

C18_Witness ==
    /\ ReferenceLost("u1")
    /\ sessions["u1"].awaiting = "saida_value"
    /\ sessions["u1"].pending_quantity # None
    /\ ENABLED (handle_text_message("u1", Parsed(10)) /\ EndsWithoutSession("u1"))

-----------------------------------------------------------------------------
(* Properties of the failed commits and rejected inputs, checked under Spec  *)

\* the handler of this step leaves user u awaiting an adjust_stock call with
\* a session whose awaiting state is not the one it had before
AttemptMovesAwaiting(u) ==
    /\ HasSession(u)
    /\ call'[u].st = "waiting"
    /\ u \in DOMAIN sessions'
    /\ sessions'[u].awaiting # sessions[u].awaiting

\* C19: when the adjust_stock call of a commit fails on the connection, the
\* session is kept with the direction, product, pending quantity and awaiting
\* state it had before the attempt, and the quantities and the table are as
\* before, so that the same button or text attempts the same commit again:
\* the failure leaves the session and the store as they are, and the handler
\* that started the call had left the awaiting state as it was
C19_FailedCommitKeepsState ==
    \A u \in Users :
        /\ ~ENABLED (adjust_error(u) /\ ~(sessions' = sessions /\ LedgerUnchanged))
        /\ \A a \in {"entrada", "saida"}, v \in QuantityTokens :
              ~ENABLED (handle_quantity_selection(u, a, v) /\ AttemptMovesAwaiting(u))
        /\ \A a \in {"entrada", "saida"}, v \in PriceTokens :
              ~ENABLED (handle_value_selection(u, a, v) /\ AttemptMovesAwaiting(u))
        /\ \A t \in Texts(u) :
              ~ENABLED (handle_text_message(u, t) /\ AttemptMovesAwaiting(u))

\* a typed or pressed value that is refused: no number, or a number <= 0
Rejected(v) == v = Unparsable \/ (v # Custom /\ v.n <= 0)

\* the typed quantities and the typed prices that are refused
RejectedQuantityTexts == {v \in {quantity_of(t) : t \in QuantityMessages} : Rejected(v)}
RejectedPriceTexts == {v \in {unit_price_of(t) : t \in PriceMessages} : Rejected(v)}

\* a refused quantity button in quantity_choice, and a refused text in
\* saida_value or quantity_manual, leave the session in the state it had,
\* with its product and direction, and write nothing
RecoveredInPlace(u) ==
    /\ sessions[u].awaiting = "quantity_choice"
          => \A v \in {x \in QuantityTokens : x # Unparsable /\ Rejected(x)} :
                 ~ENABLED (/\ handle_quantity_selection(u, sessions[u].action, v)
                           /\ ~StaysAwaiting(u, "quantity_choice"))
    /\ sessions[u].awaiting = "quantity_manual"
          => \A v \in RejectedQuantityTexts :
                 ~ENABLED (handle_text_message(u, v) /\ ~StaysAwaiting(u, "quantity_manual"))
    /\ (sessions[u].awaiting = "saida_value" /\ sessions[u].action = "saida")
          => \A v \in RejectedPriceTexts :
                 ~ENABLED (handle_text_message(u, v) /\ ~StaysAwaiting(u, "saida_value"))

InStockFlow(u) == HasSession(u) /\ sessions[u].action \in {"entrada", "saida"}

-----------------------------------------------------------------------------
(* Properties of the direction and of the start of a flow, under Spec *)

\* after this step the session of user u, if it has one, has the direction
\* it had before
KeepsDirection(u) ==
    u \in DOMAIN sessions' => sessions'[u].action = sessions[u].action

\* C21: while a user has a session of a stock flow, no category, product,
\* quantity, price or navigation update (a restart aside), whatever direction
\* its callback data carries, changes the direction of the session; and the
\* adjust_stock call a handler awaits has the direction of the session
C21_DirectionCarried ==
    \A u \in Users :
        InStockFlow(u) =>
            /\ \A a \in {"entrada", "saida"} :
                  /\ \A c \in Categories :
                        ~ENABLED (handle_category_selection(u, a, c) /\ ~KeepsDirection(u))
                  /\ \A id \in ProductIds :
                        ~ENABLED (handle_product_selection(u, a, id) /\ ~KeepsDirection(u))
                  /\ \A v \in QuantityTokens :
                        ~ENABLED (handle_quantity_selection(u, a, v) /\ ~KeepsDirection(u))
                  /\ \A v \in PriceTokens :
                        ~ENABLED (handle_value_selection(u, a, v) /\ ~KeepsDirection(u))
                  /\ \A c \in NavCommands \ {"restart"} :
                        ~ENABLED (handle_flow_navigation(u, a, c) /\ ~KeepsDirection(u))
            /\ ~Idle(u) => call[u].movement_type = sessions[u].action

-----------------------------------------------------------------------------
(* Properties of two users' sessions, checked under SpecPair *)

\* this step leaves the session and the awaited call of every user but u as
\* they were
OthersUntouched(u) ==
    \A v \in Users \ {u} :
        /\ v \in DOMAIN sessions' <=> v \in DOMAIN sessions
        /\ v \in DOMAIN sessions => sessions'[v] = sessions[v]
        /\ call'[v] = call[v]

\* any update of user u, or any step of the adjust_stock call u awaits
AnyStep(u) ==
    \/ Step(u, Actions, Categories, ProductIds, QuantityTokens, PriceTokens,
            NavCommands, MenuActions)
    \/ adjust_not_found(u)

\* C22: whatever the two users have done so far and in whatever order, no
\* update handled for a user, and no step of the call that user awaits,
\* creates, changes or removes the session of the other user
C22_UsersIndependent ==
    \A u \in Users : ~ENABLED (AnyStep(u) /\ ~OthersUntouched(u))

C22_Witness ==
    /\ HasSession("u2")
    /\ sessions["u2"].awaiting = "saida_value"
    /\ HasSession("u1")
    /\ ENABLED (adjust_commit("u1") /\ "u1" \notin DOMAIN sessions' /\ OthersUntouched("u1"))

-----------------------------------------------------------------------------
(* Properties of overlapping updates of one user, checked under SpecTap *)

\* no other handler invocation of the same user awaits an adjust_stock call
OnlyCallOfUser(t) ==
    \A o \in Tasks \ {t} : user_id(o) = user_id(t) => call[o].st = "idle"

\* C23: when two updates of one user that trigger a commit are handled by
\* overlapping invocations, the session admits one of them only: in the step
\* in which a call commits no other call of that user is running, so the flow
\* commits at most one Movement
C23_SessionGuarded ==
    [][\A t \in Tasks : (CallEnds(t) /\ AppendsOneRow) => OnlyCallOfUser(t)]_vars

-----------------------------------------------------------------------------
(* Properties of the rendering, checked under Spec *)

\* the references a session can hold to its last rendered message
LastMessages == {None, Some("last")}

-----------------------------------------------------------------------------
(* Properties of the steps of the stock flow, checked under Spec *)

\* after this step user u has a brand-new session of direction a: awaiting
\* category, no category, no product, no pending quantity, no brinde flag;
\* nothing was written or dispatched
StartsAfresh(u, a) ==
    /\ u \in DOMAIN sessions'
    /\ sessions'[u] = UserSession(a, "category")
    /\ call'[u].st = "idle"
    /\ LedgerUnchanged

\* C25: /entrada and /saida, menu:entrada and menu:saida, and
\* flow:<direction>:restart, in any state, replace whatever session the user
\* had by a brand-new one of the requested direction
C25_FlowStartsAfresh ==
    \A u \in Users, a \in {"entrada", "saida"} :
        /\ ~ENABLED (handle_flow_command(u, a) /\ ~StartsAfresh(u, a))
        /\ ~ENABLED (handle_menu_selection(u, a) /\ ~StartsAfresh(u, a))
        /\ ~ENABLED (handle_flow_navigation(u, a, "restart") /\ ~StartsAfresh(u, a))

C25_Witness ==
    /\ HasProduct("u1")
    /\ sessions["u1"].action = "saida"
    /\ sessions["u1"].is_brinde
    /\ sessions["u1"].category # "None"
    /\ ENABLED (handle_flow_navigation("u1", "saida", "restart") /\ StartsAfresh("u1", "saida"))

-----------------------------------------------------------------------------
(* Properties of the category step, checked under SpecLoss *)

\* the category whose products a categoria:<a>:<c> button lists: the coffees
\* for the brindes of a saida
ListedCategory(a, c) == IF a = "saida" /\ c = "brindes" THEN "cafes" ELSE c

\* after this step user u awaits a product in category c, in direction a
AwaitsProduct(u, a, c) ==
    /\ u \in DOMAIN sessions'
    /\ sessions'[u].awaiting = "product"
    /\ sessions'[u].category = c
    /\ sessions'[u].action = a
    /\ call'[u].st = "idle"
    /\ LedgerUnchanged

\* C26: a category button of a valid direction ends the flow, the session
\* removed, when the listed category has no product in tb_produtos; otherwise
\* the session records the category and awaits a product; no quantity and no
\* Movement changes either way
C26_CategorySelection ==
    \A u \in Users, a \in {"entrada", "saida"}, c \in Categories :
        IF \A p \in produtos : categoria(p) # ListedCategory(a, c)
        THEN ~ENABLED (handle_category_selection(u, a, c) /\ ~EndsWithoutSession(u))
        ELSE ~ENABLED (/\ handle_category_selection(u, a, c)
                       /\ ~AwaitsProduct(u, a, ListedCategory(a, c)))

C26_Witness ==
    /\ 1 \notin produtos
    /\ 2 \in produtos
    /\ HasSession("u1")
    /\ ENABLED (handle_category_selection("u1", "saida", "brindes") /\ EndsWithoutSession("u1"))
    /\ ENABLED (/\ handle_category_selection("u1", "saida", "embalagens")
                /\ AwaitsProduct("u1", "saida", "embalagens"))

\* the session of user u is an entrada on a product of the table
EntradaAtQuantity(u) ==
    /\ HasProduct(u)
    /\ sessions[u].action = "entrada"

\* after this step the entrada of quantity q is dispatched: an adjust_stock
\* call of type entrada on the session's product, without a unit price
EntradaDispatched(u, q) ==
    /\ call'[u].st = "waiting"
    /\ call'[u].movement_type = "entrada"
    /\ call'[u].product_id = sessions[u].product_id[1]
    /\ call'[u].quantity = q
    /\ call'[u].valor_unitario = None
    /\ LedgerUnchanged

\* after this step the entrada of call c is in the table, without a unit
\* price, and the session of user u is over
EntradaCommitted(u, c) ==
    /\ AppendsMovement(c)
    /\ movimentacoes'[Len(movimentacoes')].valor_unitario = None
    /\ u \notin DOMAIN sessions'

\* an entrada of a quantity > 0, pressed or typed, is dispatched at once
EntradaFlow(u) ==
    \A q \in {n \in QuantityValues : n > 0} :
        EntradaAtQuantity(u)
        => /\ ~ENABLED (/\ handle_quantity_selection(u, "entrada", Parsed(q))
                        /\ ~EntradaDispatched(u, q))
           /\ TakesQuantityText(u)
                 => ~ENABLED (/\ handle_text_message(u, Parsed(q))
                              /\ ~EntradaDispatched(u, q))

\* the call of user u is an entrada that holds the lock on its row
EntradaInTransaction(u) ==
    /\ call[u].st = "locked"
    /\ call[u].movement_type = "entrada"

PlainAtQuantity(u) == HasProduct(u) /\ ~sessions[u].is_brinde

\* after this step user u is asked for the unit price of a saida of quantity
\* q on the product it had, and nothing was written or dispatched
AwaitsPrice(u, q) ==
    /\ u \in DOMAIN sessions'
    /\ sessions'[u].awaiting = "saida_value"
    /\ sessions'[u].pending_quantity = Some(q)
    /\ sessions'[u].action = "saida"
    /\ sessions'[u].product_id = sessions[u].product_id
    /\ call'[u].st = "idle"
    /\ LedgerUnchanged

\* after this step user u is asked for a quantity again (see
\* RefusedAtQuantity), or for a price, as the stock of its product decides
SaidaConfirmed(u, q) ==
    IF q > quantidade[sessions[u].product_id[1]]
    THEN RefusedAtQuantity(u)
    ELSE AwaitsPrice(u, q)

\* C28: a confirmed quantity > 0 of a saida that is no brinde (button or
\* text) is compared with the quantity of the product in tb_produtos: above
\* it the session goes to quantity_choice, otherwise the quantity is kept as
\* pending_quantity and the session goes to saida_value; either way no
\* adjust_stock call is started and no quantity or Movement changes
C28_SaidaConfirmation ==
    \A u \in Users :
        PlainAtQuantity(u)
        => \A q \in {n \in QuantityValues : n > 0} :
              /\ ~ENABLED (/\ handle_quantity_selection(u, "saida", Parsed(q))
                           /\ ~SaidaConfirmed(u, q))
              /\ (TakesQuantityText(u) /\ sessions[u].action = "saida")
                    => ~ENABLED (/\ handle_text_message(u, Parsed(q))
                                 /\ ~SaidaConfirmed(u, q))

\* with half a unit of product 1 in stock a saida of half a unit is asked
\* for its price and a saida of one unit is refused
C28_Witness ==
    /\ PlainAtQuantity("u1")
    /\ sessions["u1"].action = "saida"
    /\ sessions["u1"].product_id = Some(1)
    /\ sessions["u1"].awaiting = "quantity_choice"
    /\ quantidade[1] = 5000
    /\ ENABLED (/\ handle_quantity_selection("u1", "saida", Parsed(5000))
                /\ AwaitsPrice("u1", 5000))
    /\ ENABLED (/\ handle_quantity_selection("u1", "saida", Parsed(10000))
                /\ RefusedAtQuantity("u1"))

-----------------------------------------------------------------------------
(* Properties of the unit price of a saida, under Spec *)

\* the session of user u is a saida awaiting its unit price
AtSaidaValue(u) ==
    /\ u \in DOMAIN sessions
    /\ sessions[u].action = "saida"
    /\ sessions[u].awaiting = "saida_value"

\* after this step the session of user u still awaits the unit price, with
\* the direction, product and pending quantity it had, and nothing was
\* written or dispatched
StaysAtSaidaValue(u) ==
    /\ StaysAwaiting(u, "saida_value")
    /\ sessions'[u].pending_quantity = sessions[u].pending_quantity

\* C29: while a unit price is awaited, a text that is no decimal once its
\* comma is taken for a point, or that reads as a value <= 0, and the
\* valor:<action>:custom button, leave the session in saida_value with its
\* product and pending quantity, and change no quantity and no Movement
C29_PriceRefusedInPlace ==
    \A u \in Users :
        AtSaidaValue(u) =>
            /\ \A v \in RejectedPriceTexts :
                  ~ENABLED (handle_text_message(u, v) /\ ~StaysAtSaidaValue(u))
            /\ \A a \in {"entrada", "saida"} :
                  ~ENABLED (handle_value_selection(u, a, Custom) /\ ~StaysAtSaidaValue(u))

\* a saida of half a unit of product 1 awaits its price: "abc", "0", "-1"
\* and the custom button leave it there
C29_Witness ==
    /\ AtSaidaValue("u1")
    /\ sessions["u1"].product_id = Some(1)
    /\ sessions["u1"].pending_quantity = Some(5000)
    /\ \A t \in {<<"a", "b", "c">>, <<"0">>, <<"-", "1">>} :
          /\ unit_price_of(t) \in RejectedPriceTexts
          /\ ENABLED (handle_text_message("u1", unit_price_of(t)) /\ StaysAtSaidaValue("u1"))
    /\ ENABLED (handle_value_selection("u1", "saida", Custom) /\ StaysAtSaidaValue("u1"))

\* C30: every saida row of tb_movimentacoes that is not tagged [BRINDE] has
\* a valor_unitario > 0, whichever price button or price text committed it
C30_PositiveUnitPrice ==
    \A i \in 1..Len(movimentacoes) :
        (/\ movimentacoes[i].tipo_movimentacao = "saida"
         /\ ~movimentacoes[i].observacao.brinde)
        => /\ movimentacoes[i].valor_unitario # None
           /\ movimentacoes[i].valor_unitario[1] > 0

-----------------------------------------------------------------------------
(* Properties of the brinde flow and of the states a commit starts from,   *)
(* under Spec                                                               *)

\* C31: every row of tb_movimentacoes whose observacao is tagged [BRINDE] is
\* a saida with valor_unitario exactly 0, whatever updates were delivered
C31_BrindeAtZeroPrice ==
    \A i \in 1..Len(movimentacoes) :
        movimentacoes[i].observacao.brinde
        => /\ movimentacoes[i].tipo_movimentacao = "saida"
           /\ movimentacoes[i].valor_unitario = Some(0)

\* C32: a saida category button of cafes or embalagens leaves a session that
\* is no brinde, whatever category was selected before it (so that its
\* quantity confirmation asks for a price and its row carries no [BRINDE] tag)
C32_BrindeFollowsCategory ==
    \A u \in Users :
        \A c \in {"cafes", "embalagens"} :
            ~ENABLED (/\ handle_category_selection(u, "saida", c)
                      /\ u \in DOMAIN sessions'
                      /\ sessions'[u].is_brinde)

\* after this step the session of user u awaits a quantity choice while its
\* metadata still holds the pending quantity of an earlier confirmation
ReRequestedWithPending(u) ==
    /\ u \in DOMAIN sessions'
    /\ sessions'[u].awaiting = "quantity_choice"
    /\ sessions'[u].pending_quantity # None

\* C33: whenever the quantity is asked for again (flow:<action>:back_to_quantity,
\* a quantity refused at its confirmation, InsufficientStockError of the
\* commit), the session that awaits quantity_choice holds no pending quantity
C33_NoPendingWhenReRequested ==
    \A u \in Users :
        /\ \A a \in {"entrada", "saida"} :
              /\ ~ENABLED (/\ handle_flow_navigation(u, a, "back_to_quantity")
                           /\ ReRequestedWithPending(u))
              /\ \A q \in QuantityValues :
                    ~ENABLED (/\ handle_quantity_selection(u, a, Parsed(q))
                              /\ ReRequestedWithPending(u))
        /\ ~ENABLED (adjust_insufficient(u) /\ ReRequestedWithPending(u))

\* this step of user u's handler reaches its await of adjust_stock
StartsCall(u) == call[u].st = "idle" /\ call'[u].st # "idle"

\* C34: an adjust_stock call is started only from the state the flow
\* prescribes: by a quantity button or text only while quantity_choice or
\* quantity_manual is awaited, by a price button or text only while
\* saida_value is awaited; delivered in another state they start none
C34_CommitFromPrescribedState ==
    \A u \in Users :
        HasSession(u) =>
            /\ sessions[u].awaiting \notin {"quantity_choice", "quantity_manual"}
                  => /\ \A a \in {"entrada", "saida"}, q \in QuantityValues :
                           ~ENABLED (/\ handle_quantity_selection(u, a, Parsed(q))
                                     /\ StartsCall(u))
                     /\ sessions[u].awaiting # "saida_value"
                           => \A t \in Texts(u) :
                                  ~ENABLED (handle_text_message(u, t) /\ StartsCall(u))
            /\ sessions[u].awaiting # "saida_value"
                  => \A a \in {"entrada", "saida"}, v \in PriceValues :
                         ~ENABLED (/\ handle_value_selection(u, a, Parsed(v))
                                   /\ StartsCall(u))

\* C35: a session that awaits saida_value is a saida with a product id and a
\* pending quantity > 0
C35_SaidaValueHasItsData ==
    \A u \in DOMAIN sessions :
        sessions[u].awaiting = "saida_value"
        => /\ sessions[u].action = "saida"
           /\ sessions[u].product_id # None
           /\ sessions[u].pending_quantity # None
           /\ sessions[u].pending_quantity[1] > 0

-----------------------------------------------------------------------------
(* Properties of the navigation buttons, under SpecLoss: rows of tb_produtos *)
(* may have been deleted since the session selected its category or product *)

\* the category the session of user u has selected, "None" without a session
CurrentCategory(u) == IF u \in DOMAIN sessions THEN sessions[u].category ELSE "None"

\* after this step user u is shown what flow:a:back_to_products shows: the
\* categories when its session has no category, nothing (the session is
\* gone) when the category has no product, else the products of the category
\* for direction a; no pending quantity is left, nothing written or dispatched
BackToProducts(u, a) ==
    /\ LedgerUnchanged
    /\ call'[u].st = "idle"
    /\ IF CurrentCategory(u) = "None"
       THEN /\ u \in DOMAIN sessions'
            /\ sessions'[u].awaiting = "category"
            /\ sessions'[u].pending_quantity = None
       ELSE IF \A p \in produtos : categoria(p) # CurrentCategory(u)
       THEN u \notin DOMAIN sessions'
       ELSE /\ u \in DOMAIN sessions'
            /\ sessions'[u].awaiting = "product"
            /\ sessions'[u].category = CurrentCategory(u)
            /\ sessions'[u].action = a
            /\ sessions'[u].pending_quantity = None

\* C36: flow:<action>:back_to_products lists the products of the session's
\* category and leaves the session awaiting product; without a category the
\* session awaits category; when the category has no product left the
\* session is removed; the pending quantity is dropped and no quantity and
\* no Movement changes
C36_BackToProducts ==
    \A u \in {"u1"}, a \in {"entrada", "saida"} :
        ~ENABLED (handle_flow_navigation(u, a, "back_to_products") /\ ~BackToProducts(u, a))

\* a saida of cafes awaits its price with a pending quantity; back to
\* products lists the cafes again and drops the pending quantity
C36_Witness ==
    /\ HasSession("u1")
    /\ sessions["u1"].category = "cafes"
    /\ sessions["u1"].awaiting = "saida_value"
    /\ sessions["u1"].pending_quantity # None
    /\ 1 \in produtos
    /\ ENABLED (/\ handle_flow_navigation("u1", "saida", "back_to_products")
                /\ BackToProducts("u1", "saida")
                /\ sessions'["u1"].awaiting = "product")

\* the session of user u has selected a product whose row still exists
ProductResolves(u) ==
    /\ u \in DOMAIN sessions
    /\ sessions[u].product_id # None
    /\ sessions[u].product_id[1] \in produtos

\* after this step user u is asked for a quantity of the product it had
\* selected, and nothing was written or dispatched
BackToQuantity(u) ==
    /\ LedgerUnchanged
    /\ call'[u].st = "idle"
    /\ u \in DOMAIN sessions'
    /\ sessions'[u].awaiting = "quantity_choice"
    /\ sessions'[u].product_id = sessions[u].product_id

\* C37: flow:<action>:back_to_quantity looks the selected product up again:
\* when its row exists the session awaits quantity_choice for that product;
\* when it is gone, or no product was selected, the outcome is that of
\* back_to_products; no adjust_stock call is started in either case
C37_BackToQuantity ==
    \A u \in {"u1"}, a \in {"entrada", "saida"} :
        ~ENABLED (/\ handle_flow_navigation(u, a, "back_to_quantity")
                  /\ ~(IF ProductResolves(u) THEN BackToQuantity(u)
                                             ELSE BackToProducts(u, a)))

\* the row of the product selected in category cafes was deleted and no
\* cafe is left: back to quantity ends the session as back to products does
C37_Witness ==
    /\ HasSession("u1")
    /\ sessions["u1"].product_id = Some(1)
    /\ sessions["u1"].category = "cafes"
    /\ 1 \notin produtos
    /\ ENABLED (/\ handle_flow_navigation("u1", "saida", "back_to_quantity")
                /\ BackToProducts("u1", "saida")
                /\ "u1" \notin DOMAIN sessions')

-----------------------------------------------------------------------------
(* Frame properties, under Spec *)

\* the rows of tb_movimentacoes that are no saida, in their order
WithoutSaidas == SelectSeq(movimentacoes, LAMBDA m : m.tipo_movimentacao # "saida")

\* C38: clear_stock sets every quantity to 0 and leaves tb_movimentacoes as
\* it is; clear_saidas_history deletes the saida rows and no other;
\* clear_all_history deletes every row; both leave every quantity as it is;
\* none of the three creates, changes or removes a session
C38_BulkClearsFrame ==
    \A u \in {"u1"} :
        /\ ~ENABLED (/\ clear_stock(u)
                     /\ ~(/\ \A p \in Products : quantidade'[p] = 0
                          /\ movimentacoes' = movimentacoes
                          /\ sessions' = sessions))
        /\ ~ENABLED (/\ clear_saidas_history(u)
                     /\ ~(/\ movimentacoes' = WithoutSaidas
                          /\ quantidade' = quantidade
                          /\ sessions' = sessions))
        /\ ~ENABLED (/\ clear_all_history(u)
                     /\ ~(/\ movimentacoes' = <<>>
                          /\ quantidade' = quantidade
                          /\ sessions' = sessions))

\* a user in a flow, stock on product 1 and an entrada row in the table:
\* the stock clear keeps the row, the saida clear keeps it too, the history
\* clear deletes it, and the session stays
C38_Witness ==
    /\ HasSession("u1")
    /\ quantidade[1] > 0
    /\ Len(movimentacoes) = 1
    /\ movimentacoes[1].tipo_movimentacao = "entrada"
    /\ ENABLED (clear_stock("u1") /\ quantidade'[1] = 0 /\ movimentacoes' = movimentacoes)
    /\ ENABLED (clear_saidas_history("u1") /\ movimentacoes' = movimentacoes)
    /\ ENABLED (clear_all_history("u1") /\ movimentacoes' = <<>> /\ sessions' = sessions)

\* C39: the quantities of tb_produtos and the rows of tb_movimentacoes change
\* only in the commit of an adjust_stock call and in a bulk clear; every
\* other step (a flow start, a category, product, quantity or price update
\* that starts or refuses something, a navigation button, a question to the
\* assistant, the menu, a call that fails) leaves both as they are
C39_LedgerFrame ==
    [][\/ LedgerUnchanged
       \/ \E u \in Users :
             \/ adjust_commit(u)
             \/ clear_stock(u)
             \/ clear_saidas_history(u)
             \/ clear_all_history(u)]_vars

\* stock and a row exist while a saida awaits its price: the menu, a
\* navigation button and a refused price all leave them as they are
C39_Witness ==
    /\ AtSaidaValue("u1")
    /\ quantidade[1] > 0
    /\ Len(movimentacoes) = 1
    /\ ENABLED (handle_menu_selection("u1", "home") /\ LedgerUnchanged)
    /\ ENABLED (handle_flow_navigation("u1", "saida", "back_to_quantity") /\ LedgerUnchanged)
    /\ ENABLED (handle_text_message("u1", unit_price_of(<<"0">>)) /\ LedgerUnchanged)

-----------------------------------------------------------------------------
(* Termination of adjust_stock and release of the row lock, under SpecLock *)

\* C40: every adjust_stock call ends (commit, InsufficientStockError,
\* ProductNotFoundError or another error), a call that waits for the row
\* lock of its product gets past the wait, and a locked row is unlocked
\* again: each transaction releases its lock however it ends
C40_CallsFinishAndRelease ==
    /\ \A u \in Users : (call[u].st # "idle") ~> (call[u].st = "idle")
    /\ \A u \in Users : (call[u].st = "waiting") ~> (call[u].st # "waiting")
    /\ \A p \in Products : RowLocked(p) ~> ~RowLocked(p)

\* one caller holds the lock of product 1 in a transaction that will commit
\* while the other waits for the same row with a saida that will be refused
C40_Witness ==
    /\ call["u1"].st = "locked"
    /\ call["u1"].product_id = 1
    /\ ~insufficient(call["u1"])
    /\ call["u2"].st = "waiting"
    /\ call["u2"].product_id = 1
    /\ ~ENABLED adjust_lock("u2")

====
